---- MODULE Spec2Model ----
(***************************************************************************)
(* botflow: the flow runner (Flow.executar / Flow._executar_step), the     *)
(* retry wrapper (executar_com_retry, RetryPolicy.deve_tentar_novamente),  *)
(* the hook manager and the plugin manager, as one state machine.          *)
(*                                                                         *)
(* The runner is single-threaded; the machine's position (pc) stops at     *)
(* every call the runner makes into code it does not own: a skip           *)
(* predicate, a hook, a plugin method, the step's executar, time.sleep.    *)
(* What those calls do (return, raise, which payload, which error) is      *)
(* chosen with \E at the call.  Everything the runner does between two     *)
(* such calls happens in the action of the call that precedes it.          *)
(*                                                                         *)
(* Not modelled: the logger (an external sink), StepResult.duracao and     *)
(* StepResult.mensagem (timing and free text), and writes a step makes to  *)
(* the context on its own (the model's steps only read it).                *)
(***************************************************************************)
EXTENDS Integers, Sequences, FiniteSets, TLC

VARIABLES
    parar_na_falha,   \* Flow.parar_na_falha
    retry_padrao,     \* Flow.retry_padrao (a policy or None)
    steps,            \* Flow._steps: sequence of [nome, retry]
    contexto,         \* the argument of Flow.executar
    anteriores,       \* history: what each earlier call of executar left
    ctx,              \* the shared context of the running executar
    ctx_ref,          \* which dict object ctx is: the caller's or a new one
    resultados,       \* the result list being built
    pc,               \* where the runner is
    idx,              \* index of the current step (enumerate(..., start=1))
    cb,               \* index of the next callback of the current dispatch
    tentativa,        \* loop variable of executar_com_retry
    ultimo_erro,      \* ultimo_erro of executar_com_retry / erro of the except
    saida,            \* how executar ended
    eventos           \* history: every call made into foreign code, in order

vars == <<parar_na_falha, retry_padrao, steps, contexto, anteriores, ctx, ctx_ref,
          resultados, pc, idx, cb, tentativa, ultimo_erro, saida, eventos>>

\* What stays as it is during one call of executar.
config == <<parar_na_falha, retry_padrao, steps, contexto, anteriores>>

-----------------------------------------------------------------------------
(* Bounds *)

NSteps == 2
MaxTentativas == 3
NHooks == 2
NPlugins == 2

\* Durations are whole numbers of a small unit of time.
MaxBase == 6
MaxEspera == 40

-----------------------------------------------------------------------------
(* Values *)

\* Python's None.
None == [tipo |-> "None"]

\* A payload records the step and the invocation that returned it; vazio
\* marks a falsy payload such as {}.

Dados(i, n, v) == [tipo |-> "dict", vazio |-> v, passo |-> i, n |-> n]

\* Exceptions.  An exception records its class, who raised it and at which
\* invocation.

Erro(t, de, i, n) == [tipo |-> t, de |-> de, passo |-> i, n |-> n]

\* The classes a step raises in the model, and the classes a pol's
\* excecoes tuple may hold.  isinstance follows the class hierarchy: every
\* class is a subclass of Exception.
TiposDeErro == {"ValueError", "TypeError"}

IsInstance(erro, classes) ==
    \E c \in classes : c = "Exception" \/ c = erro.tipo

\* Retry policies.

FixedDelay(m, e) == [tipo |-> "FixedDelay", max_tentativas |-> m,
                     excecoes |-> e, espera_segundos |-> 0]

ExponentialBackoff(b, mx, j) ==
    [tipo |-> "ExponentialBackoff", max_tentativas |-> 5,
     excecoes |-> {"Exception"}, base_segundos |-> b,
     max_espera_segundos |-> mx, jitter |-> j]

\* StepResult.  passo is history: the index of the step the result was
\* built for.
StepResult(st, d, e, t, i) ==
    [status |-> st, dados |-> d, erro |-> e, tentativas |-> t, passo |-> i]

teve_sucesso(r) == r.status = "sucesso"

\* The entries of the history: a callback of the flow (plugin k), a call
\* that was given the context (callback k of step i), the skip predicate
\* (with what it answered: "True", "False" or "raise"), a callback that was
\* also given a result or an error, an invocation of executar (the n-th of
\* step i, with what it returned or raised), and a sleep.
EvFlow(ev, k, n) == [ev |-> ev, passo |-> 0, k |-> k, n |-> n]

EvCtx(ev, i, k, c) == [ev |-> ev, passo |-> i, k |-> k, ctx |-> c]

EvPular(i, c, ret) ==
    [ev |-> "deve_pular", passo |-> i, k |-> 0, ctx |-> c, ret |-> ret]

EvRes(ev, i, k, c, r) == [ev |-> ev, passo |-> i, k |-> k, ctx |-> c, res |-> r]

EvErro(ev, i, k, c, e) == [ev |-> ev, passo |-> i, k |-> k, ctx |-> c, erro |-> e]

EvExecutar(i, n, c, d, e) ==
    [ev |-> "executar", passo |-> i, k |-> 0, n |-> n, ctx |-> c,
     dados |-> d, erro |-> e]

EvSleep(i, t, espera) ==
    [ev |-> "sleep", passo |-> i, k |-> 0, n |-> t, espera |-> espera]

EmptyCtx == [x \in {} |-> None]

\* ctx[nome] = dados
CtxSet(c, nome, d) ==
    [x \in (DOMAIN c) \cup {nome} |-> IF x = nome THEN d ELSE c[x]]

-----------------------------------------------------------------------------
(* Pure functions of the code *)

\* bool(x) of a policy object or None.
Truthy(pol) == pol # None

\* bool(x) of a dict or None: an empty dict is falsy.
DictTruthy(d) == d # None /\ DOMAIN d # {}

\* flow.py 111: ctx = contexto or {}
ContextoInicial(c) == IF DictTruthy(c) THEN c ELSE EmptyCtx

\* The object "contexto or {}" evaluates to: the caller's dict itself when
\* it is truthy, a dict created on the spot otherwise.
ObjetoInicial(c) == IF DictTruthy(c) THEN "contexto" ELSE "novo"

\* Mutant: the flow's default takes precedence over the step's own policy.
PolicyEfetivaPadraoPrimeiro(retry_step, padrao) ==
    IF Truthy(padrao) THEN padrao ELSE retry_step

\* flow.py 118: policy = retry_step or self.retry_padrao
PolicyEfetiva(retry_step, padrao) ==
    IF Truthy(retry_step) THEN retry_step ELSE padrao

\* Mutant: off by one, the last attempt is never made.
deve_tentar_novamente_UmAMenos(pol, t, erro) ==
    IF t + 1 >= pol.max_tentativas
    THEN FALSE
    ELSE IsInstance(erro, pol.excecoes)

\* Mutant: the class of the error is not looked at.
deve_tentar_novamente_SemFiltro(pol, t, erro) ==
    IF t >= pol.max_tentativas
    THEN FALSE
    ELSE TRUE

\* Mutant: > for >=.
deve_tentar_novamente_Maior(pol, t, erro) ==
    IF t > pol.max_tentativas
    THEN FALSE
    ELSE IsInstance(erro, pol.excecoes)

\* RetryPolicy.deve_tentar_novamente
deve_tentar_novamente(pol, t, erro) ==
    IF t >= pol.max_tentativas
    THEN FALSE
    ELSE IsInstance(erro, pol.excecoes)

\* FixedDelay.calcular_espera
calcular_espera(pol, t) == pol.espera_segundos

Min(a, b) == IF a <= b THEN a ELSE b

\* The values random.uniform(a, b) may return.
Uniform(a, b) == a..b

\* A tenth of a duration (espera * 0.1), in whole units.
Decimo(x) == x \div 10

\* Mutant: the cap is applied before the jitter is added.
ExponentialBackoff_calcular_espera_TetoAntes(pol, t, sorteio) ==
    LET espera == pol.base_segundos * (2 ^ t)
    IN IF pol.jitter
       THEN Min(espera, pol.max_espera_segundos) + sorteio
       ELSE Min(espera, pol.max_espera_segundos)

\* ExponentialBackoff.calcular_espera (retry.py 74-78); sorteio is what
\* random.uniform returned.
ExponentialBackoff_calcular_espera(pol, t, sorteio) ==
    LET espera == pol.base_segundos * (2 ^ t)
    IN Min(IF pol.jitter THEN espera + sorteio ELSE espera,
           pol.max_espera_segundos)

\* retry.py 101: ultimo_erro before the first attempt.
SemTentativas(i) == Erro("RuntimeError", "retry", i, 0)

\* Mutant: the first error is kept, later ones are dropped.
UltimoErroPrimeiro(anterior, erro) ==
    IF anterior.de = "retry" THEN erro ELSE anterior

\* retry.py 106-107: except Exception as erro: ultimo_erro = erro
UltimoErro(anterior, erro) == erro

\* Mutant: the attempt count of executar_com_retry is dropped.
ResultadoSucessoSemContagem(pol, d, t, i) ==
    StepResult("sucesso", d, None, 1, i)

\* flow.py 198-203: the StepResult of a step whose call returned.
ResultadoSucesso(pol, d, t, i) ==
    StepResult("sucesso", d, None, IF Truthy(pol) THEN t ELSE 1, i)

\* Mutant: the Failure is built without its erro.
ResultadoFalhaSemErro(pol, erro, i) ==
    StepResult("falha", None, None,
               IF Truthy(pol) THEN pol.max_tentativas ELSE 1, i)

\* Mutant: tentativas is left at the default of StepResult.
ResultadoFalhaUmaTentativa(pol, erro, i) ==
    StepResult("falha", None, erro, 1, i)

\* flow.py 206-211: the StepResult of a step whose call raised.
ResultadoFalha(pol, erro, i) ==
    StepResult("falha", None, erro,
               IF Truthy(pol) THEN pol.max_tentativas ELSE 1, i)

\* flow.py 122-125: the StepResult of a skipped step.
ResultadoPulado(i) == StepResult("pulado", None, None, 1, i)

\* Mutant: "if resultado.dados:", which drops falsy payloads such as {}.
ArmazenarSeVerdadeiro(c, nome, r) ==
    IF r.dados # None /\ ~r.dados.vazio THEN CtxSet(c, nome, r.dados) ELSE c

\* Mutant: an entry already in the context is kept (dict.setdefault).
ArmazenarSeAusente(c, nome, r) ==
    IF r.dados # None /\ nome \notin DOMAIN c THEN CtxSet(c, nome, r.dados) ELSE c

\* flow.py 155-156: if resultado.dados is not None: ctx[step.nome] = ...
Armazenar(c, nome, r) ==
    IF r.dados # None THEN CtxSet(c, nome, r.dados) ELSE c

\* Mutant: every failure stops the flow, whatever parar_na_falha says.
InterrompeFlowSempre(r, parar) == ~teve_sucesso(r)

\* Mutant: a failure never stops the flow.
InterrompeFlowNunca(r, parar) == FALSE

\* flow.py 157-166: a failure stops the flow when parar_na_falha is set.
InterrompeFlow(r, parar) == ~teve_sucesso(r) /\ parar

\* Mutant: the direct registration puts the hook at the head of the list.
registrar_antes_NaFrente(lista, fn) == <<fn>> \o lista

\* hooks.py 33-36 and 51-53: both registrations of a before-hook append.
antes_do_step(lista, fn) == Append(lista, fn)

registrar_antes(lista, fn) == Append(lista, fn)

\* hooks.py 38-41 and 55-57: both registrations of an after-hook append.
apos_o_step(lista, fn) == Append(lista, fn)

registrar_apos(lista, fn) == Append(lista, fn)

\* Mutant: only the first registered plugin is served.
CallableSoPrimeiro(plugin, evento) == plugin = 1

\* plugins.py 66-69: metodo = getattr(plugin, evento, None); callable(metodo).
\* BotflowPlugin defines the five lifecycle methods, so every registered
\* plugin has a callable for every event.
Callable(plugin, evento) == TRUE

-----------------------------------------------------------------------------
(* State helpers *)

\* HookManager._antes and HookManager._apos after NHooks registrations each:
\* hook n is the n-th one registered, by the decorator and by the direct
\* method in turn (the after-hooks start with the direct method).
RECURSIVE RegistrarAntes(_)
RegistrarAntes(n) ==
    IF n = 0
    THEN <<>>
    ELSE IF n % 2 = 1
         THEN antes_do_step(RegistrarAntes(n - 1), n)
         ELSE registrar_antes(RegistrarAntes(n - 1), n)

RECURSIVE RegistrarApos(_)
RegistrarApos(n) ==
    IF n = 0
    THEN <<>>
    ELSE IF n % 2 = 1
         THEN registrar_apos(RegistrarApos(n - 1), n)
         ELSE apos_o_step(RegistrarApos(n - 1), n)

hooks_antes == RegistrarAntes(NHooks)

hooks_apos == RegistrarApos(NHooks)

policy == PolicyEfetiva(steps[idx].retry, retry_padrao)

resultado == resultados[Len(resultados)]

\* How executar ends: it returns the list, raises FlowError(step,
\* resultado), or an exception nobody caught leaves it.
EmCurso == [tipo |-> "nenhuma"]

Retorno(rs) == [tipo |-> "retorno", valor |-> rs]

FlowError(i, r) == [tipo |-> "FlowError", step |-> i, resultado |-> r]

Excecao(e) == [tipo |-> "excecao", erro |-> e]

\* Number of times executar of step i has been invoked so far.
Chamadas(i) ==
    Cardinality({j \in DOMAIN eventos :
                    eventos[j].passo = i /\ eventos[j].ev = "executar"})

Registrar(e) == eventos' = Append(eventos, e)

\* The exception a callback raises; nobody catches it, it leaves executar.
Escapa(ev, i, k) ==
    /\ pc' = "fim"
    /\ saida' = Excecao(Erro("CallbackError", ev, i, k))

\* The for loop of executar moves to step i (or leaves the loop).
IrParaStep(i) ==
    /\ idx' = i
    /\ cb' = 1
    /\ pc' = IF i <= Len(steps) THEN "pular" ELSE "finalizar_flow"

-----------------------------------------------------------------------------
(* Actions *)

\* Flow.executar, lines 111-115: the context, the empty result list, and
\* the start of the flow-start dispatch.
Executar ==
    /\ pc = "ini"
    /\ ctx' = ContextoInicial(contexto)
    /\ ctx_ref' = ObjetoInicial(contexto)
    /\ resultados' = <<>>
    /\ pc' = "iniciar_flow"
    /\ cb' = 1
    /\ UNCHANGED <<config, idx, tentativa, ultimo_erro, saida, eventos>>

\* plugins.ao_iniciar_flow(self): one iteration of _disparar, plugin cb; the
\* loop over the steps starts when the last plugin has returned.
PluginIniciarFlow ==
    /\ pc = "iniciar_flow"
    /\ LET segue == /\ IF cb < NPlugins
                       THEN cb' = cb + 1 /\ UNCHANGED <<pc, idx>>
                       ELSE IrParaStep(1)
                    /\ UNCHANGED saida
       IN IF Callable(cb, "ao_iniciar_flow")
          THEN /\ Registrar(EvFlow("ao_iniciar_flow", cb, 0))
               /\ \/ segue
                  \/ Escapa("ao_iniciar_flow", 0, cb) /\ UNCHANGED <<idx, cb>>
          ELSE UNCHANGED eventos /\ segue
    /\ UNCHANGED <<config, ctx_ref, ctx, resultados, tentativa, ultimo_erro>>

\* Mutant: the skip branch without its "continue": the Skipped result is
\* recorded and the step is processed all the same.
DevePularSemContinue ==
    /\ pc = "pular"
    /\ \/ /\ Registrar(EvPular(idx, ctx, "True"))
          /\ resultados' = Append(resultados, ResultadoPulado(idx))
          /\ pc' = "antes"
          /\ cb' = 1
          /\ UNCHANGED <<idx, saida>>
       \/ /\ Registrar(EvPular(idx, ctx, "False"))
          /\ pc' = "antes"
          /\ cb' = 1
          /\ UNCHANGED <<resultados, idx, saida>>
       \/ /\ Registrar(EvPular(idx, ctx, "raise"))
          /\ Escapa("deve_pular", idx, 0)
          /\ UNCHANGED <<resultados, idx, cb>>
    /\ UNCHANGED <<config, ctx_ref, ctx, tentativa, ultimo_erro>>

\* Mutant: an exception of the skip predicate is caught and taken as False.
DevePularEngoleErro ==
    /\ pc = "pular"
    /\ \/ /\ Registrar(EvPular(idx, ctx, "True"))
          /\ resultados' = Append(resultados, ResultadoPulado(idx))
          /\ IrParaStep(idx + 1)
          /\ UNCHANGED saida
       \/ \E ret \in {"False", "raise"} :
             /\ Registrar(EvPular(idx, ctx, ret))
             /\ pc' = "antes"
             /\ cb' = 1
             /\ UNCHANGED <<resultados, idx, saida>>
    /\ UNCHANGED <<config, ctx_ref, ctx, tentativa, ultimo_erro>>

\* step.deve_pular(ctx), lines 121-132.
DevePular ==
    /\ pc = "pular"
    /\ \/ \* returns True: a Skipped result, and on to the next step
          /\ Registrar(EvPular(idx, ctx, "True"))
          /\ resultados' = Append(resultados, ResultadoPulado(idx))
          /\ IrParaStep(idx + 1)
          /\ UNCHANGED saida
       \/ \* returns False: the before-hooks are dispatched
          /\ Registrar(EvPular(idx, ctx, "False"))
          /\ pc' = "antes"
          /\ cb' = 1
          /\ UNCHANGED <<resultados, idx, saida>>
       \/ \* raises
          /\ Registrar(EvPular(idx, ctx, "raise"))
          /\ Escapa("deve_pular", idx, 0)
          /\ UNCHANGED <<resultados, idx, cb>>
    /\ UNCHANGED <<config, ctx_ref, ctx, tentativa, ultimo_erro>>

\* hooks.disparar_antes(step, ctx): the cb-th hook of the list is called.
HookAntes ==
    /\ pc = "antes"
    /\ Registrar(EvCtx("hook_antes", idx, hooks_antes[cb], ctx))
    /\ \/ /\ IF cb < Len(hooks_antes)
             THEN cb' = cb + 1 /\ pc' = pc
             ELSE cb' = 1 /\ pc' = "iniciar_step"
          /\ UNCHANGED saida
       \/ Escapa("hook_antes", idx, hooks_antes[cb]) /\ UNCHANGED cb
    /\ UNCHANGED <<config, ctx_ref, ctx, resultados, idx, tentativa, ultimo_erro>>

\* plugins.ao_iniciar_step(step, ctx): one iteration of _disparar.  When
\* the last plugin has returned, _executar_step starts: with a policy, the
\* loop of executar_com_retry is entered with tentativa = 1 (for
\* max_tentativas < 1 its body never runs and ultimo_erro is raised as
\* initialised).
PluginIniciarStep ==
    /\ pc = "iniciar_step"
    /\ LET segue ==
             /\ IF cb < NPlugins
                THEN /\ cb' = cb + 1
                     /\ UNCHANGED <<pc, tentativa, ultimo_erro>>
                ELSE /\ cb' = 1
                     /\ tentativa' = 1
                     /\ ultimo_erro' = SemTentativas(idx)
                     /\ pc' = IF Truthy(policy) /\ policy.max_tentativas < 1
                              THEN "falhar"
                              ELSE "invocar"
             /\ UNCHANGED saida
       IN IF Callable(cb, "ao_iniciar_step")
          THEN /\ Registrar(EvCtx("ao_iniciar_step", idx, cb, ctx))
               /\ \/ segue
                  \/ /\ Escapa("ao_iniciar_step", idx, cb)
                     /\ UNCHANGED <<cb, tentativa, ultimo_erro>>
          ELSE UNCHANGED eventos /\ segue
    /\ UNCHANGED <<config, ctx_ref, ctx, resultados, idx>>

\* Mutant: the break of executar_com_retry is missing: the wrapper sleeps
\* after every failed invocation and goes on until the range is exhausted.
InvocarSemBreak ==
    /\ pc = "invocar"
    /\ LET n == Chamadas(idx) + 1 IN
       \/ \E d \in {None, Dados(idx, n, TRUE), Dados(idx, n, FALSE)} :
            /\ Registrar(EvExecutar(idx, n, ctx, d, None))
            /\ resultados' =
                 Append(resultados, ResultadoSucesso(policy, d, tentativa, idx))
            /\ pc' = "apos"
            /\ UNCHANGED ultimo_erro
       \/ \E t \in TiposDeErro :
            LET erro == Erro(t, "step", idx, n) IN
            /\ Registrar(EvExecutar(idx, n, ctx, None, erro))
            /\ ultimo_erro' = erro
            /\ pc' = IF Truthy(policy) THEN "esperar" ELSE "falhar"
            /\ UNCHANGED resultados
    /\ cb' = 1
    /\ UNCHANGED <<config, ctx_ref, ctx, idx, tentativa, saida>>

\* Mutant: the payload is stored as soon as the step returns, before the
\* after-hooks and the step-end event.
InvocarArmazenando ==
    /\ pc = "invocar"
    /\ LET n == Chamadas(idx) + 1 IN
       \/ \E d \in {None, Dados(idx, n, TRUE), Dados(idx, n, FALSE)} :
            /\ Registrar(EvExecutar(idx, n, ctx, d, None))
            /\ resultados' =
                 Append(resultados, ResultadoSucesso(policy, d, tentativa, idx))
            /\ ctx' = Armazenar(ctx, steps[idx].nome,
                                ResultadoSucesso(policy, d, tentativa, idx))
            /\ pc' = "apos"
            /\ UNCHANGED ultimo_erro
       \/ \E t \in TiposDeErro :
            LET erro == Erro(t, "step", idx, n) IN
            /\ Registrar(EvExecutar(idx, n, ctx, None, erro))
            /\ IF Truthy(policy)
               THEN /\ ultimo_erro' = UltimoErro(ultimo_erro, erro)
                    /\ pc' = IF deve_tentar_novamente(policy, tentativa, erro)
                             THEN "esperar"
                             ELSE "falhar"
               ELSE /\ ultimo_erro' = erro
                    /\ pc' = "falhar"
            /\ UNCHANGED <<resultados, ctx>>
    /\ cb' = 1
    /\ UNCHANGED <<config, ctx_ref, idx, tentativa, saida>>

\* One invocation of step._executar_com_medicao(ctx), and what
\* executar_com_retry (retry.py 103-113) or _executar_step (flow.py
\* 194-203) does with its outcome.
Invocar ==
    /\ pc = "invocar"
    /\ LET n == Chamadas(idx) + 1 IN
       \/ \* the step returns a payload
          \E d \in {None, Dados(idx, n, TRUE), Dados(idx, n, FALSE)} :
            /\ Registrar(EvExecutar(idx, n, ctx, d, None))
            /\ resultados' =
                 Append(resultados, ResultadoSucesso(policy, d, tentativa, idx))
            /\ pc' = "apos"
            /\ UNCHANGED ultimo_erro
       \/ \* the step raises
          \E t \in TiposDeErro :
            LET erro == Erro(t, "step", idx, n) IN
            /\ Registrar(EvExecutar(idx, n, ctx, None, erro))
            /\ IF Truthy(policy)
               THEN /\ ultimo_erro' = UltimoErro(ultimo_erro, erro)
                    /\ pc' = IF deve_tentar_novamente(policy, tentativa, erro)
                             THEN "esperar"
                             ELSE "falhar"
               ELSE /\ ultimo_erro' = erro
                    /\ pc' = "falhar"
            /\ UNCHANGED resultados
    /\ cb' = 1
    /\ UNCHANGED <<config, ctx_ref, ctx, idx, tentativa, saida>>

\* Mutant: the step-fail event is dispatched for every attempt that is
\* going to be retried, before the wait.
EsperarAvisandoPlugins ==
    /\ pc = "esperar"
    /\ eventos' = eventos
                   \o [k \in 1..NPlugins |->
                         EvErro("ao_falhar_step", idx, k, ctx, ultimo_erro)]
                   \o <<EvSleep(idx, tentativa, calcular_espera(policy, tentativa))>>
    /\ IF tentativa + 1 <= policy.max_tentativas
       THEN tentativa' = tentativa + 1 /\ pc' = "invocar"
       ELSE tentativa' = tentativa /\ pc' = "falhar"
    /\ UNCHANGED <<config, ctx_ref, ctx, resultados, idx, cb, ultimo_erro, saida>>

\* Mutant: the skip predicate is evaluated again before every retry.
EsperarReavaliandoPular ==
    /\ pc = "esperar"
    /\ eventos' = eventos
                   \o <<EvSleep(idx, tentativa, calcular_espera(policy, tentativa)),
                        EvPular(idx, ctx, "False")>>
    /\ IF tentativa + 1 <= policy.max_tentativas
       THEN tentativa' = tentativa + 1 /\ pc' = "invocar"
       ELSE tentativa' = tentativa /\ pc' = "falhar"
    /\ UNCHANGED <<config, ctx_ref, ctx, resultados, idx, cb, ultimo_erro, saida>>

\* Mutant: after the sleep the loop does not advance: it sleeps again, with
\* the same attempt number, for ever.
EsperarParaSempre ==
    /\ pc = "esperar"
    /\ pc' = "esperar"
    /\ UNCHANGED <<config, ctx_ref, ctx, resultados, idx, cb, tentativa,
                   ultimo_erro, saida, eventos>>

\* time.sleep(policy.calcular_espera(tentativa)), then the next iteration
\* of the for loop; when the range is exhausted, raise ultimo_erro.
Esperar ==
    /\ pc = "esperar"
    /\ Registrar(EvSleep(idx, tentativa, calcular_espera(policy, tentativa)))
    /\ IF tentativa + 1 <= policy.max_tentativas
       THEN tentativa' = tentativa + 1 /\ pc' = "invocar"
       ELSE tentativa' = tentativa /\ pc' = "falhar"
    /\ UNCHANGED <<config, ctx_ref, ctx, resultados, idx, cb, ultimo_erro, saida>>

\* flow.py 204-211: plugins.ao_falhar_step(step, erro, ctx), one iteration
\* of _disparar; the Failure result is built when the last plugin has
\* returned (and appended, line 141).
PluginFalharStep ==
    /\ pc = "falhar"
    /\ LET segue ==
             /\ IF cb < NPlugins
                THEN cb' = cb + 1 /\ UNCHANGED <<pc, resultados>>
                ELSE /\ cb' = 1
                     /\ pc' = "apos"
                     /\ resultados' =
                          Append(resultados, ResultadoFalha(policy, ultimo_erro, idx))
             /\ UNCHANGED saida
       IN IF Callable(cb, "ao_falhar_step")
          THEN /\ Registrar(EvErro("ao_falhar_step", idx, cb, ctx, ultimo_erro))
               /\ \/ segue
                  \/ /\ Escapa("ao_falhar_step", idx, cb)
                     /\ UNCHANGED <<cb, resultados>>
          ELSE UNCHANGED eventos /\ segue
    /\ UNCHANGED <<config, ctx_ref, ctx, idx, tentativa, ultimo_erro>>

\* hooks.disparar_apos(step, resultado, ctx): the cb-th hook of the list is
\* called.
HookApos ==
    /\ pc = "apos"
    /\ Registrar(EvRes("hook_apos", idx, hooks_apos[cb], ctx, resultado))
    /\ \/ /\ IF cb < Len(hooks_apos)
             THEN cb' = cb + 1 /\ pc' = pc
             ELSE cb' = 1 /\ pc' = "finalizar_step"
          /\ UNCHANGED saida
       \/ Escapa("hook_apos", idx, hooks_apos[cb]) /\ UNCHANGED cb
    /\ UNCHANGED <<config, ctx_ref, ctx, resultados, idx, tentativa, ultimo_erro>>

\* plugins.ao_finalizar_step(step, resultado, ctx): one iteration of
\* _disparar.
PluginFinalizarStep ==
    /\ pc = "finalizar_step"
    /\ LET segue == /\ IF cb < NPlugins
                       THEN cb' = cb + 1 /\ pc' = pc
                       ELSE cb' = 1 /\ pc' = "concluir"
                    /\ UNCHANGED saida
       IN IF Callable(cb, "ao_finalizar_step")
          THEN /\ Registrar(EvRes("ao_finalizar_step", idx, cb, ctx, resultado))
               /\ \/ segue
                  \/ Escapa("ao_finalizar_step", idx, cb) /\ UNCHANGED cb
          ELSE UNCHANGED eventos /\ segue
    /\ UNCHANGED <<config, ctx_ref, ctx, resultados, idx, tentativa, ultimo_erro>>

\* flow.py 147-166: the payload is stored, or the failure stops the flow.
Concluir ==
    /\ pc = "concluir"
    /\ ctx' = IF teve_sucesso(resultado)
              THEN Armazenar(ctx, steps[idx].nome, resultado)
              ELSE ctx
    /\ IF InterrompeFlow(resultado, parar_na_falha)
       THEN pc' = "finalizar_flow_falha" /\ cb' = 1 /\ idx' = idx
       ELSE IrParaStep(idx + 1)
    /\ UNCHANGED <<config, ctx_ref, resultados, tentativa, ultimo_erro, saida, eventos>>

\* Mutant: the raise after the flow-end dispatch is missing; the loop goes
\* on and the dispatch after the loop is made as well.
PluginFinalizarFlowFalhaSemRaise ==
    /\ pc = "finalizar_flow_falha"
    /\ LET segue == IF cb < NPlugins
                    THEN cb' = cb + 1 /\ UNCHANGED <<pc, idx, saida>>
                    ELSE IrParaStep(idx + 1) /\ UNCHANGED saida
       IN IF Callable(cb, "ao_finalizar_flow")
          THEN /\ Registrar(EvFlow("ao_finalizar_flow", cb, Len(resultados)))
               /\ \/ segue
                  \/ Escapa("ao_finalizar_flow", 0, cb) /\ UNCHANGED <<idx, cb>>
          ELSE UNCHANGED eventos /\ segue
    /\ UNCHANGED <<config, ctx_ref, ctx, resultados, tentativa, ultimo_erro>>

\* flow.py 165-166: plugins.ao_finalizar_flow(self, resultados), then
\* raise FlowError(step, resultado).
PluginFinalizarFlowFalha ==
    /\ pc = "finalizar_flow_falha"
    /\ LET segue == IF cb < NPlugins
                    THEN cb' = cb + 1 /\ UNCHANGED <<pc, saida>>
                    ELSE cb' = cb /\ pc' = "fim" /\ saida' = FlowError(idx, resultado)
       IN IF Callable(cb, "ao_finalizar_flow")
          THEN /\ Registrar(EvFlow("ao_finalizar_flow", cb, Len(resultados)))
               /\ \/ segue
                  \/ Escapa("ao_finalizar_flow", 0, cb) /\ UNCHANGED cb
          ELSE UNCHANGED eventos /\ segue
    /\ UNCHANGED <<config, ctx_ref, ctx, resultados, idx, tentativa, ultimo_erro>>

\* flow.py 168-174: plugins.ao_finalizar_flow(self, resultados), then
\* return resultados.
PluginFinalizarFlow ==
    /\ pc = "finalizar_flow"
    /\ LET segue == IF cb < NPlugins
                    THEN cb' = cb + 1 /\ UNCHANGED <<pc, saida>>
                    ELSE cb' = cb /\ pc' = "fim" /\ saida' = Retorno(resultados)
       IN IF Callable(cb, "ao_finalizar_flow")
          THEN /\ Registrar(EvFlow("ao_finalizar_flow", cb, Len(resultados)))
               /\ \/ segue
                  \/ Escapa("ao_finalizar_flow", 0, cb) /\ UNCHANGED cb
          ELSE UNCHANGED eventos /\ segue
    /\ UNCHANGED <<config, ctx_ref, ctx, resultados, idx, tentativa, ultimo_erro>>

Next ==
    \/ Executar
    \/ PluginIniciarFlow
    \/ DevePular
    \/ HookAntes
    \/ PluginIniciarStep
    \/ Invocar
    \/ Esperar
    \/ PluginFalharStep
    \/ HookApos
    \/ PluginFinalizarStep
    \/ Concluir
    \/ PluginFinalizarFlowFalha
    \/ PluginFinalizarFlow

-----------------------------------------------------------------------------
(* Configurations *)

NomeDoStep(i) == IF i = 1 THEN "A" ELSE IF i = 2 THEN "B" ELSE "C"

\* The policies of the retry study: every max_tentativas up to the bound,
\* retrying everything or only TypeError.
Politicas ==
    {FixedDelay(m, e) : m \in 1..MaxTentativas,
                        e \in {{"Exception"}, {"TypeError"}}}

InitRuntime ==
    /\ anteriores = <<>>
    /\ ctx = EmptyCtx
    /\ ctx_ref = "novo"
    /\ resultados = <<>>
    /\ pc = "ini"
    /\ idx = 0
    /\ cb = 0
    /\ tentativa = 0
    /\ ultimo_erro = None
    /\ saida = EmCurso
    /\ eventos = <<>>

\* Flows of up to NSteps steps without a default policy; a step has no
\* policy of its own or retries TypeError once.
Init ==
    /\ parar_na_falha \in BOOLEAN
    /\ retry_padrao = None
    /\ \E n \in 0..NSteps :
         steps \in {[i \in 1..n |-> [nome |-> NomeDoStep(i), retry |-> r[i]]] :
                       r \in [1..n -> {None, FixedDelay(2, {"TypeError"})}]}
    /\ contexto = None
    /\ InitRuntime

Spec == Init /\ [][Next]_vars

\* The same flows, run by a thread that always takes its next step: every
\* call into a step, a predicate or a callback returns or raises, and
\* time.sleep returns.
SpecJusta == Init /\ [][Next]_vars /\ WF_vars(Next)

\* Flows of one step under every policy of the retry study, with and
\* without a default policy.
InitRetry ==
    /\ parar_na_falha \in BOOLEAN
    /\ retry_padrao \in {None, FixedDelay(2, {"Exception"})}
    /\ steps \in {<<[nome |-> "A", retry |-> r]>> : r \in Politicas \cup {None}}
    /\ contexto = None
    /\ InitRuntime

SpecRetry == InitRetry /\ [][Next]_vars

\* What the caller passes as contexto: nothing, an empty dict, a dict with
\* an entry of its own, a dict with an entry under the first step's name.
ContextosDoChamador ==
    {None, EmptyCtx,
     CtxSet(EmptyCtx, "Z", Dados(0, 0, FALSE)),
     CtxSet(EmptyCtx, "A", Dados(0, 0, FALSE))}

\* Flows of one to NSteps steps run on each of these; only the first step
\* may have a policy.
InitContexto ==
    /\ parar_na_falha \in BOOLEAN
    /\ retry_padrao = None
    /\ \E n \in 1..NSteps :
         steps \in {[i \in 1..n |-> [nome |-> NomeDoStep(i),
                                     retry |-> IF i = 1 THEN r ELSE None]] :
                       r \in {None, FixedDelay(2, {"TypeError"})}}
    /\ contexto \in ContextosDoChamador
    /\ InitRuntime

SpecContexto == InitContexto /\ [][Next]_vars

\* Mutant: the context of the earlier call is used again when no contexto
\* is given (a dict kept between calls, as a mutable default argument is).
ExecutarDeNovoComCtxAnterior ==
    /\ pc = "fim"
    /\ anteriores = <<>>
    /\ anteriores' = Append(anteriores, [ctx |-> ctx, resultados |-> resultados,
                                         saida |-> saida])
    /\ \E c \in {None, CtxSet(EmptyCtx, "Z", Dados(0, 0, FALSE))} :
          /\ contexto' = c
          /\ ctx' = IF c = None THEN ctx ELSE ContextoInicial(c)
          /\ ctx_ref' = ObjetoInicial(c)
    /\ resultados' = <<>>
    /\ eventos' = <<>>
    /\ saida' = EmCurso
    /\ pc' = "iniciar_flow"
    /\ cb' = 1
    /\ idx' = 0
    /\ tentativa' = 0
    /\ ultimo_erro' = None
    /\ UNCHANGED <<parar_na_falha, retry_padrao, steps>>

\* Flow.executar called again on the same flow after an earlier call has
\* ended (flow.py 97-115), with no contexto or with a new dict of the
\* caller.  The history of the earlier call is put aside.
ExecutarDeNovo ==
    /\ pc = "fim"
    /\ anteriores = <<>>
    /\ anteriores' = Append(anteriores, [ctx |-> ctx, resultados |-> resultados,
                                         saida |-> saida])
    /\ \E c \in {None, CtxSet(EmptyCtx, "Z", Dados(0, 0, FALSE))} :
          /\ contexto' = c
          /\ ctx' = ContextoInicial(c)
          /\ ctx_ref' = ObjetoInicial(c)
    /\ resultados' = <<>>
    /\ eventos' = <<>>
    /\ saida' = EmCurso
    /\ pc' = "iniciar_flow"
    /\ cb' = 1
    /\ idx' = 0
    /\ tentativa' = 0
    /\ ultimo_erro' = None
    /\ UNCHANGED <<parar_na_falha, retry_padrao, steps>>

NextDeNovo == Next \/ ExecutarDeNovo

\* A flow of one step that retries TypeError once, run twice.
InitDeNovo ==
    /\ parar_na_falha \in BOOLEAN
    /\ retry_padrao = None
    /\ steps = <<[nome |-> "A", retry |-> FixedDelay(2, {"TypeError"})]>>
    /\ contexto = None
    /\ InitRuntime

SpecDeNovo == InitDeNovo /\ [][NextDeNovo]_vars

\* A flow whose steps all have the same nome, which Flow.step (flow.py
\* 69-85) accepts; the first step may retry TypeError once.
InitMesmoNome ==
    /\ parar_na_falha \in BOOLEAN
    /\ retry_padrao = None
    /\ steps \in {[i \in 1..NSteps |-> [nome |-> "A",
                                       retry |-> IF i = 1 THEN r ELSE None]] :
                    r \in {None, FixedDelay(2, {"TypeError"})}}
    /\ contexto \in {None, CtxSet(EmptyCtx, "A", Dados(0, 0, FALSE))}
    /\ InitRuntime

SpecMesmoNome == InitMesmoNome /\ [][Next]_vars

\* RetryPolicy.deve_tentar_novamente called on its own, as
\* tests/test_retry.py does: the answer is left in saida.
Consultar ==
    /\ pc = "consulta"
    /\ saida' = [tipo |-> "bool",
                 valor |-> deve_tentar_novamente(policy, tentativa, ultimo_erro)]
    /\ pc' = "respondido"
    /\ UNCHANGED <<config, ctx_ref, ctx, resultados, idx, cb, tentativa, ultimo_erro,
                   eventos>>

\* Every policy (max_tentativas up to the bound; nothing, everything, one
\* class or two classes retryable), every attempt number from 0 to one past
\* the bound, and an error of each class.
InitConsulta ==
    /\ parar_na_falha = FALSE
    /\ retry_padrao = None
    /\ steps \in {<<[nome |-> "A", retry |-> FixedDelay(m, e)]>> :
                     m \in 0..MaxTentativas,
                     e \in {{}, {"Exception"}, {"TypeError"},
                            {"ValueError", "TypeError"}}}
    /\ contexto = None
    /\ anteriores = <<>>
    /\ ctx = EmptyCtx
    /\ ctx_ref = "novo"
    /\ resultados = <<>>
    /\ pc = "consulta"
    /\ idx = 1
    /\ cb = 0
    /\ tentativa \in 0..(MaxTentativas + 1)
    /\ ultimo_erro \in {Erro(t, "step", 1, 1) : t \in TiposDeErro \cup {"KeyError"}}
    /\ saida = EmCurso
    /\ eventos = <<>>

SpecConsulta == InitConsulta /\ [][Consultar]_vars

\* ExponentialBackoff.calcular_espera called on its own for tentativa = 1,
\* 2, ..., as tests/test_retry.py does: each answer is appended to the
\* history.
CalcularEspera ==
    /\ pc = "espera"
    /\ tentativa <= MaxTentativas
    /\ \E sorteio \in Uniform(0, Decimo(policy.base_segundos * (2 ^ tentativa))) :
          Registrar(EvSleep(1, tentativa,
                            ExponentialBackoff_calcular_espera(policy, tentativa,
                                                               sorteio)))
    /\ tentativa' = tentativa + 1
    /\ UNCHANGED <<config, ctx_ref, ctx, resultados, pc, idx, cb, ultimo_erro,
                   saida>>

\* Every base and every cap up to the bounds, with and without jitter.
InitEspera ==
    /\ parar_na_falha = FALSE
    /\ retry_padrao = None
    /\ steps \in {<<[nome |-> "A", retry |-> ExponentialBackoff(b, mx, j)]>> :
                     b \in 0..MaxBase, mx \in 0..MaxEspera, j \in BOOLEAN}
    /\ contexto = None
    /\ anteriores = <<>>
    /\ ctx = EmptyCtx
    /\ ctx_ref = "novo"
    /\ resultados = <<>>
    /\ pc = "espera"
    /\ idx = 1
    /\ cb = 0
    /\ tentativa = 1
    /\ ultimo_erro = None
    /\ saida = EmCurso
    /\ eventos = <<>>

SpecEspera == InitEspera /\ [][CalcularEspera]_vars

-----------------------------------------------------------------------------
(* Reading the history *)

\* Positions of the invocations of executar of step i, and the n-th one.
ExecsDe(i) ==
    {e \in DOMAIN eventos : eventos[e].passo = i /\ eventos[e].ev = "executar"}

ExecN(i, n) ==
    eventos[CHOOSE e \in DOMAIN eventos :
               /\ eventos[e].passo = i
               /\ eventos[e].ev = "executar"
               /\ eventos[e].n = n]

UltimaExec(i) == ExecN(i, Chamadas(i))

PolicyDoStep(i) == PolicyEfetiva(steps[i].retry, retry_padrao)

\* No hook, plugin or skip predicate has raised.
SemErroDeCallback == saida.tipo # "excecao"

-----------------------------------------------------------------------------
(* C1: with parar_na_falha = False and callbacks that do not raise, executar
   returns a list with exactly one StepResult per configured step, the i-th
   result being the i-th step's, whatever the outcomes. *)
C1_UmResultadoPorStep ==
    /\ \A j \in DOMAIN resultados : resultados[j].passo = j
    /\ (pc = "fim" /\ ~parar_na_falha /\ SemErroDeCallback) =>
          /\ saida.tipo = "retorno"
          /\ Len(saida.valor) = Len(steps)
          /\ \A i \in 1..Len(steps) :
                /\ saida.valor[i].passo = i
                /\ saida.valor[i].status \in {"sucesso", "falha", "pulado"}

\* A flow that went on after a failure and returned both results.
C1_Witness ==
    /\ pc = "fim" /\ ~parar_na_falha /\ saida.tipo = "retorno"
    /\ Len(steps) >= 2
    /\ saida.valor[1].status = "falha"
    /\ saida.valor[2].status \in {"sucesso", "pulado"}

-----------------------------------------------------------------------------
(* C2: with parar_na_falha = True, executar raises FlowError at the first
   step whose result is Failure; the FlowError carries that step and that
   result; for every later step no skip predicate is evaluated, no hook or
   plugin step event is dispatched, executar is never invoked and no result
   exists.  (When a callback of the failing step raises instead, that
   exception leaves executar: nothing is returned either.) *)
C2_ParaNaPrimeiraFalha ==
    /\ parar_na_falha =>
         \A j \in DOMAIN resultados :
            resultados[j].status = "falha" =>
               /\ j = Len(resultados)
               /\ idx = j
               /\ \A e \in DOMAIN eventos : eventos[e].passo <= j
               /\ saida.tipo # "retorno"
               /\ (pc = "fim" /\ SemErroDeCallback) =>
                     saida = FlowError(j, resultados[j])
    /\ saida.tipo = "FlowError" =>
         /\ parar_na_falha
         /\ saida.resultado.status = "falha"
         /\ saida.resultado = resultados[saida.step]

\* FlowError raised at a step that has a configured step after it.
C2_Witness ==
    /\ saida.tipo = "FlowError"
    /\ saida.step < Len(steps)
    /\ Len(resultados) = saida.step

-----------------------------------------------------------------------------
(* C3: an exception raised by a step's executar never leaves Flow.executar
   as itself; it becomes a Failure result whose erro is the last exception
   the step raised; it reaches the caller only inside FlowError and only
   when parar_na_falha is True; with parar_na_falha = False executar never
   raises because of a step failure. *)
C3_ErroDoStepViraFalha ==
    /\ saida.tipo = "excecao" => saida.erro.de # "step"
    /\ \A j \in DOMAIN resultados :
          LET r == resultados[j]
              n == Chamadas(j)
          IN /\ r.status = "falha" =>
                   /\ n >= 1
                   /\ r.erro = ExecN(j, n).erro
                   /\ r.erro.de = "step" /\ r.erro.passo = j
                   /\ r.erro.n = n
             /\ r.status = "sucesso" => n >= 1 /\ ExecN(j, n).erro = None
             /\ r.status = "pulado" => n = 0
    /\ (pc = "fim" /\ SemErroDeCallback) =>
          \A j \in 1..Len(steps) :
             LET n == Chamadas(j) IN
             (n >= 1 /\ ExecN(j, n).erro # None) =>
                j \in DOMAIN resultados /\ resultados[j].status = "falha"
    /\ saida.tipo = "FlowError" =>
          /\ parar_na_falha
          /\ saida.resultado.status = "falha"
          /\ saida.resultado.erro = UltimaExec(saida.step).erro
    /\ ~parar_na_falha => saida.tipo # "FlowError"

\* A step retried once: TypeError first, then ValueError, which is the erro
\* of the Failure inside the FlowError.
C3_Witness ==
    /\ saida.tipo = "FlowError"
    /\ Chamadas(saida.step) = 2
    /\ ExecN(saida.step, 1).erro.tipo = "TypeError"
    /\ saida.resultado.erro.tipo = "ValueError"
    /\ saida.resultado.erro.n = 2

-----------------------------------------------------------------------------
(* C4: when deve_pular(ctx) returns True the recorded result is Skipped (no
   payload, no error), executar is never invoked, no before-hook,
   after-hook, plugin step-start, step-end or step-fail call is made for
   that step, and the flow continues with the next step. *)
C4_StepPulado ==
    /\ \A e \in DOMAIN eventos :
          (eventos[e].ev = "deve_pular" /\ eventos[e].ret = "True") =>
             LET j == eventos[e].passo IN
             /\ j \in DOMAIN resultados
             /\ resultados[j].status = "pulado"
             /\ resultados[j].dados = None
             /\ resultados[j].erro = None
             /\ \A f \in DOMAIN eventos : eventos[f].passo = j => f = e
             /\ IF e < Len(eventos)
                THEN IF j < Len(steps)
                     THEN /\ eventos[e + 1].ev = "deve_pular"
                          /\ eventos[e + 1].passo = j + 1
                     ELSE eventos[e + 1].ev = "ao_finalizar_flow"
                ELSE /\ idx = j + 1
                     /\ pc = IF j < Len(steps) THEN "pular" ELSE "finalizar_flow"
    /\ \A j \in DOMAIN resultados :
          resultados[j].status = "pulado" =>
             \E e \in DOMAIN eventos :
                /\ eventos[e].ev = "deve_pular"
                /\ eventos[e].passo = j
                /\ eventos[e].ret = "True"

\* A skipped step followed by a step that ran.
C4_Witness ==
    /\ Len(resultados) >= 2
    /\ resultados[1].status = "pulado"
    /\ resultados[2].status = "sucesso"

-----------------------------------------------------------------------------
(* C5: the runner writes ctx[step.nome] := payload exactly when the step
   ends in Success with a payload that is not None; the entry is then seen
   by the executar, the skip predicate and the hooks of every later step;
   after a Failure, a skip or a Success with a None payload every entry is
   as it was. *)

\* The context after the first m steps, by the rule the claim states.
RECURSIVE CtxEsperado(_)
CtxEsperado(m) ==
    IF m <= 0
    THEN ContextoInicial(contexto)
    ELSE LET c == CtxEsperado(m - 1)
             r == resultados[m]
         IN IF r.status = "sucesso" /\ r.dados # None
            THEN CtxSet(c, steps[m].nome, r.dados)
            ELSE c

C5_ContextoSoNoSucesso ==
    /\ LET esperado == [m \in 0..Len(resultados) |-> CtxEsperado(m)] IN
       \A e \in DOMAIN eventos :
          (eventos[e].passo >= 1 /\ eventos[e].ev # "sleep") =>
             eventos[e].ctx = esperado[eventos[e].passo - 1]
    /\ pc \in {"iniciar_flow", "pular", "antes", "iniciar_step", "invocar",
               "esperar", "falhar", "apos", "finalizar_step", "concluir",
               "finalizar_flow"} => ctx = CtxEsperado(idx - 1)
    /\ pc = "finalizar_flow_falha" => ctx = CtxEsperado(idx)
    /\ saida.tipo \in {"retorno", "FlowError"} =>
          ctx = CtxEsperado(Len(resultados))

\* Step 1 returned an empty (falsy, not None) payload, stored under its
\* name and seen by step 2's executar; step 2 returned None.
C5_Witness ==
    /\ saida.tipo = "retorno"
    /\ Len(resultados) = 2
    /\ resultados[1].status = "sucesso"
    /\ resultados[1].dados # None /\ resultados[1].dados.vazio
    /\ resultados[2].status = "sucesso" /\ resultados[2].dados = None
    /\ DOMAIN ctx = {"A"}
    /\ ctx["A"] = resultados[1].dados
    /\ ExecN(2, 1).ctx = ctx

-----------------------------------------------------------------------------
(* C6: when the operation fails on its first N-1 invocations with retryable
   errors and succeeds on the N-th (N <= max_tentativas), it is invoked
   exactly N times and the StepResult is Success with tentativas = N and
   the payload of the N-th invocation. *)
C6_SucessoNaEnesima ==
    \A j \in 1..Len(steps) :
       \A N \in 1..Chamadas(j) :
          LET pol == PolicyDoStep(j) IN
          ( /\ Truthy(pol)
            /\ N <= pol.max_tentativas
            /\ \A m \in 1..(N - 1) :
                  /\ ExecN(j, m).erro # None
                  /\ IsInstance(ExecN(j, m).erro, pol.excecoes)
            /\ ExecN(j, N).erro = None )
          => /\ Chamadas(j) = N
             /\ j \in DOMAIN resultados
             /\ resultados[j] = StepResult("sucesso", ExecN(j, N).dados, None, N, j)

\* Two retryable failures, then success on the third attempt.
C6_Witness ==
    /\ Len(resultados) >= 1
    /\ resultados[1].status = "sucesso"
    /\ resultados[1].tentativas = 3
    /\ Chamadas(1) = 3
    /\ ExecN(1, 1).erro # None /\ ExecN(1, 2).erro # None

-----------------------------------------------------------------------------
(* C7: executar_com_retry never invokes the operation more than
   max_tentativas times; when every invocation raises a retryable error it
   is invoked exactly max_tentativas times and the exception that
   propagates is the one the last invocation raised. *)
C7_NoMaximoMaxTentativas ==
    \A j \in 1..Len(steps) :
       LET pol == PolicyDoStep(j)
           todas == \A e \in ExecsDe(j) :
                       /\ eventos[e].erro # None
                       /\ IsInstance(eventos[e].erro, pol.excecoes)
       IN Truthy(pol) =>
            /\ Chamadas(j) <= pol.max_tentativas
            /\ (todas /\ idx = j /\ pc = "falhar") =>
                  /\ Chamadas(j) = pol.max_tentativas
                  /\ ultimo_erro = ExecN(j, pol.max_tentativas).erro
            /\ (todas /\ j \in DOMAIN resultados /\ resultados[j].status = "falha") =>
                  /\ Chamadas(j) = pol.max_tentativas
                  /\ resultados[j].erro = ExecN(j, pol.max_tentativas).erro

\* Three attempts allowed, three retryable failures, the third one propagates.
C7_Witness ==
    /\ Len(steps) >= 1
    /\ idx = 1 /\ pc = "falhar"
    /\ Truthy(PolicyDoStep(1))
    /\ PolicyDoStep(1).max_tentativas = 3
    /\ Chamadas(1) = 3
    /\ \A e \in ExecsDe(1) : IsInstance(eventos[e].erro, PolicyDoStep(1).excecoes)
    /\ ultimo_erro.n = 3

-----------------------------------------------------------------------------
(* C8: as soon as an invocation raises an error whose class is not in the
   policy's retryable set, retrying stops: no wait and no further
   invocation follows, however many attempts remain, and that same error is
   propagated (an operation that always raises such an error is invoked
   exactly once). *)
C8_ErroFiltradoNaoRetenta ==
    \A e \in DOMAIN eventos :
       LET j == eventos[e].passo IN
       ( /\ eventos[e].ev = "executar"
         /\ eventos[e].erro # None
         /\ Truthy(PolicyDoStep(j))
         /\ ~IsInstance(eventos[e].erro, PolicyDoStep(j).excecoes) )
       => /\ \A f \in DOMAIN eventos :
                (f > e /\ eventos[f].passo = j) =>
                   eventos[f].ev \notin {"executar", "sleep"}
          /\ Chamadas(j) = eventos[e].n
          /\ IF e = Len(eventos)
             THEN pc = "falhar" /\ ultimo_erro = eventos[e].erro
             ELSE /\ eventos[e + 1].ev = "ao_falhar_step"
                  /\ eventos[e + 1].erro = eventos[e].erro
          /\ j \in DOMAIN resultados =>
                /\ resultados[j].status = "falha"
                /\ resultados[j].erro = eventos[e].erro

\* Three attempts allowed; a retryable TypeError, then a ValueError outside
\* the set ends the retrying after two invocations.
C8_Witness ==
    /\ Len(resultados) >= 1
    /\ resultados[1].status = "falha"
    /\ PolicyDoStep(1) = FixedDelay(3, {"TypeError"})
    /\ Chamadas(1) = 2
    /\ ExecN(1, 1).erro.tipo = "TypeError"
    /\ resultados[1].erro.tipo = "ValueError"

-----------------------------------------------------------------------------
(* C9: deve_tentar_novamente(attempt, error) is True exactly when
   attempt < max_tentativas and the error's class is in the policy's
   retryable set; it is False whenever attempt >= max_tentativas and
   whenever the class is outside the set. *)
C9_DeveTentarNovamente ==
    pc = "respondido" =>
       LET pol == steps[1].retry IN
       /\ saida.valor =
             ( /\ tentativa < pol.max_tentativas
               /\ \E c \in pol.excecoes :
                     c = "Exception" \/ c = ultimo_erro.tipo )
       /\ tentativa >= pol.max_tentativas => saida.valor = FALSE
       /\ (\A c \in pol.excecoes : c # "Exception" /\ c # ultimo_erro.tipo)
             => saida.valor = FALSE

\* The last attempt number that is still retried, with an error of a
\* listed class.
C9_Witness ==
    /\ pc = "respondido"
    /\ saida.valor = TRUE
    /\ tentativa = steps[1].retry.max_tentativas - 1
    /\ steps[1].retry.excecoes = {"ValueError", "TypeError"}

-----------------------------------------------------------------------------
(* C10: when every step runs and succeeds, the plugin events are exactly:
   flow start once, then for each step in order step start and step end,
   then flow end once; step fail is never dispatched; each event goes to
   every registered plugin in registration order. *)
EventosDePlugin ==
    {"ao_iniciar_flow", "ao_iniciar_step", "ao_finalizar_step",
     "ao_falhar_step", "ao_finalizar_flow"}

EhDePlugin(e) == e.ev \in EventosDePlugin

\* The plugin calls made so far, as <<event, step, plugin>>.
ChamadasDePlugin ==
    LET sel == SelectSeq(eventos, EhDePlugin)
    IN [i \in 1..Len(sel) |-> <<sel[i].ev, sel[i].passo, sel[i].k>>]

\* One event delivered to every plugin in registration order.
Disparo(ev, i) == [k \in 1..NPlugins |-> <<ev, i, k>>]

RECURSIVE DisparosDosSteps(_)
DisparosDosSteps(n) ==
    IF n = 0
    THEN <<>>
    ELSE DisparosDosSteps(n - 1) \o Disparo("ao_iniciar_step", n)
                                 \o Disparo("ao_finalizar_step", n)

C10_OrdemDosEventosDePlugin ==
    ( /\ pc = "fim"
      /\ saida.tipo = "retorno"
      /\ \A j \in DOMAIN resultados : resultados[j].status = "sucesso" )
    => ChamadasDePlugin = Disparo("ao_iniciar_flow", 0)
                          \o DisparosDosSteps(Len(steps))
                          \o Disparo("ao_finalizar_flow", 0)

\* Two steps that succeeded, the first one on its second attempt.
C10_Witness ==
    /\ pc = "fim"
    /\ saida.tipo = "retorno"
    /\ Len(resultados) = 2
    /\ \A j \in DOMAIN resultados : resultados[j].status = "sucesso"
    /\ Chamadas(1) = 2

-----------------------------------------------------------------------------
(* C11: in every run that returns or raises FlowError the flow-end event is
   dispatched exactly once (each plugin receives it once, in registration
   order, with the result list), as the last thing executar does; on the
   stop-on-failure path it comes right after the step-end event of the
   failing step and FlowError is raised after it. *)
FlowEnds == {e \in DOMAIN eventos : eventos[e].ev = "ao_finalizar_flow"}

C11_FlowEndUmaVez ==
    /\ \A e, f \in FlowEnds : eventos[e].k = eventos[f].k => e = f
    /\ saida.tipo \in {"retorno", "FlowError"} =>
          LET p == Len(eventos) - NPlugins IN
          /\ FlowEnds = (p + 1)..Len(eventos)
          /\ \A e \in FlowEnds :
                /\ eventos[e].k = e - p
                /\ eventos[e].n = Len(resultados)
          /\ saida.tipo = "FlowError" =>
                /\ p >= 1
                /\ eventos[p].ev = "ao_finalizar_step"
                /\ eventos[p].passo = saida.step
                /\ eventos[p].k = NPlugins
                /\ eventos[p].res = saida.resultado
    /\ FlowEnds # {} => pc \in {"finalizar_flow", "finalizar_flow_falha", "fim"}

\* FlowError at the first of two steps, flow-end delivered to every plugin.
C11_Witness ==
    /\ saida.tipo = "FlowError"
    /\ saida.step = 1
    /\ Len(steps) = 2
    /\ Cardinality(FlowEnds) = NPlugins

-----------------------------------------------------------------------------
(* C12: ao_falhar_step is dispatched exactly once (to every plugin) for each
   step whose result is Failure, after the retrying has ended (attempts
   exhausted or error filtered out) and with the error that becomes the
   Failure's erro; no dispatch is followed by another attempt, and a step
   that ends in Success or is skipped has none. *)
FalhasDe(j) ==
    {e \in DOMAIN eventos :
        eventos[e].passo = j /\ eventos[e].ev = "ao_falhar_step"}

-----------------------------------------------------------------------------
(* C13: ao_falhar_step is called when a step raises, before the retry: under
   a retry policy every invocation that raises is followed by the step-fail
   event, delivered to every plugin with the error raised, before the next
   invocation is made. *)
C13_FalharAntesDeCadaRetry ==
    \A e, f \in DOMAIN eventos :
       ( /\ eventos[e].ev = "executar" /\ eventos[e].erro # None
         /\ eventos[f].ev = "executar" /\ eventos[f].passo = eventos[e].passo
         /\ eventos[f].n = eventos[e].n + 1 )
       => \A k \in 1..NPlugins :
             \E g \in (e + 1)..(f - 1) :
                /\ eventos[g].ev = "ao_falhar_step"
                /\ eventos[g].k = k
                /\ eventos[g].erro = eventos[e].erro

-----------------------------------------------------------------------------
(* C14: for every step that is not skipped and ends in Success or Failure,
   every before-hook is called once with (step, context) before the step's
   first invocation and every after-hook once with (step, result, context)
   after its last invocation, each list in the order of registration,
   whichever way each hook was registered (hook n is the n-th registered). *)

\* The hooks called for step j by one kind of dispatch, in call order.
HooksChamados(ev, j) ==
    LET sel == SelectSeq(eventos, LAMBDA x : x.ev = ev /\ x.passo = j)
    IN [i \in 1..Len(sel) |-> sel[i].k]

\* The after-hook dispatch of step j has not been cut short.
AposCompleto(j) ==
    ~( /\ idx = j
       /\ \/ pc = "apos"
          \/ pc = "fim" /\ saida.tipo = "excecao" /\ saida.erro.de = "hook_apos" )

\* The calls at the positions cs were made to the hooks 1, 2, ..., n of the
\* list, one call each, in that order.
EmOrdemDeRegistro(cs, n) ==
    /\ {eventos[e].k : e \in cs} = 1..n
    /\ \A e, f \in cs : e < f => eventos[e].k < eventos[f].k

C14_HooksUmaVezEmOrdem ==
    \A j \in DOMAIN resultados :
       resultados[j].status # "pulado" =>
          LET doStep == {e \in DOMAIN eventos : eventos[e].passo = j}
              antes == {e \in doStep : eventos[e].ev = "hook_antes"}
              apos == {e \in doStep : eventos[e].ev = "hook_apos"}
              execs == {e \in doStep : eventos[e].ev = "executar"}
          IN /\ execs # {}
             /\ EmOrdemDeRegistro(antes, NHooks)
             /\ \A e \in antes : \A x \in execs :
                   /\ e < x
                   /\ eventos[e].ctx = eventos[x].ctx
             /\ \A e \in apos :
                   /\ \A x \in execs : x < e /\ eventos[e].ctx = eventos[x].ctx
                   /\ eventos[e].res = resultados[j]
             /\ IF AposCompleto(j)
                THEN EmOrdemDeRegistro(apos, NHooks)
                ELSE /\ Cardinality(apos) <= NHooks
                     /\ EmOrdemDeRegistro(apos, Cardinality(apos))

\* A Failure and then a Success, each with all its hooks called.
C14_Witness ==
    /\ pc = "fim"
    /\ saida.tipo = "retorno"
    /\ Len(resultados) = 2
    /\ resultados[1].status = "falha"
    /\ resultados[2].status = "sucesso"
    /\ Len(HooksChamados("hook_apos", 1)) = NHooks
    /\ Len(HooksChamados("hook_antes", 2)) = NHooks

-----------------------------------------------------------------------------
(* C15: executar creates a new empty context only when contexto is None; a
   dict the caller supplies, an empty one included, is itself the shared
   context, so that after executar returns the caller's dict holds the
   entry written for every step that succeeded with a payload. *)

\* The caller's dict as it is now: written through ctx when ctx is that
\* object, untouched otherwise.
DoChamador == IF ctx_ref = "contexto" THEN ctx ELSE contexto

C15_ContextoDoChamadorCompartilhado ==
    /\ pc # "ini" => (ctx_ref = "novo" <=> contexto = None)
    /\ (saida.tipo = "retorno" /\ contexto # None) =>
          \A j \in DOMAIN resultados :
             (resultados[j].status = "sucesso" /\ resultados[j].dados # None) =>
                /\ steps[j].nome \in DOMAIN DoChamador
                /\ DoChamador[steps[j].nome] = resultados[j].dados

-----------------------------------------------------------------------------
(* C16: for every attempt number n >= 1 calcular_espera(n) of an
   ExponentialBackoff never exceeds max_espera_segundos, with or without
   jitter; without jitter it equals min(base_segundos * 2^n,
   max_espera_segundos) and does not decrease as n grows. *)
C16_EsperaLimitada ==
    pc = "espera" =>
       LET pol == steps[1].retry IN
       \A e \in DOMAIN eventos :
          /\ eventos[e].n = e
          /\ eventos[e].espera <= pol.max_espera_segundos
          /\ ~pol.jitter =>
                /\ eventos[e].espera =
                      IF pol.base_segundos * (2 ^ e) <= pol.max_espera_segundos
                      THEN pol.base_segundos * (2 ^ e)
                      ELSE pol.max_espera_segundos
                /\ e > 1 => eventos[e - 1].espera <= eventos[e].espera

\* With jitter, the exponential term alone is under the cap and the draw
\* takes it over: the answer is the cap.
C16_Witness ==
    /\ pc = "espera"
    /\ Len(eventos) >= 2
    /\ steps[1].retry.jitter
    /\ steps[1].retry.base_segundos * (2 ^ Len(eventos))
          < steps[1].retry.max_espera_segundos
    /\ eventos[Len(eventos)].espera = steps[1].retry.max_espera_segundos

-----------------------------------------------------------------------------
(* C17: for every step that ends in Failure, StepResult.tentativas is the
   max_tentativas of the step's effective policy when there is one, and 1
   when there is none. *)
C17_TentativasNaFalha ==
    /\ \A j \in DOMAIN resultados :
          resultados[j].status = "falha" =>
             resultados[j].tentativas =
                IF PolicyDoStep(j) = None
                THEN 1
                ELSE PolicyDoStep(j).max_tentativas
    /\ saida.tipo = "FlowError" =>
          saida.resultado.tentativas =
             IF PolicyDoStep(saida.step) = None
             THEN 1
             ELSE PolicyDoStep(saida.step).max_tentativas

\* A policy of three attempts and an error outside its set: one invocation,
\* tentativas = 3.
C17_Witness ==
    /\ Len(resultados) >= 1
    /\ resultados[1].status = "falha"
    /\ resultados[1].tentativas = 3
    /\ Chamadas(1) = 1

-----------------------------------------------------------------------------
(* C18: for every step that ends in Failure, StepResult.tentativas, the
   number the FlowError message reports as the attempts after which the
   step failed, is the number of times the step's executar was invoked. *)
C18_TentativasSaoAsChamadas ==
    \A j \in DOMAIN resultados :
       resultados[j].status = "falha" =>
          resultados[j].tentativas = Chamadas(j)

-----------------------------------------------------------------------------
(* C19, as stated: every StepResult satisfies: Success implies a payload is
   present and no error; Failure implies an error is present and no
   payload; Skipped implies neither; for every step behaviour, a step whose
   executar returns no value included. *)
C19_PayloadOuErro ==
    \A j \in DOMAIN resultados :
       LET r == resultados[j] IN
       /\ r.status = "sucesso" => r.dados # None /\ r.erro = None
       /\ r.status = "falha" => r.erro # None /\ r.dados = None
       /\ r.status = "pulado" => r.dados = None /\ r.erro = None

(* C19, amended: Success implies no error, and the payload is what the
   step's last invocation returned, present exactly when that was not None;
   Failure implies an error is present and no payload; Skipped implies
   neither. *)
C19_PayloadOuErroSalvoNone ==
    \A j \in DOMAIN resultados :
       LET r == resultados[j] IN
       /\ r.status = "sucesso" =>
             /\ r.erro = None
             /\ r.dados = UltimaExec(j).dados
             /\ UltimaExec(j).erro = None
       /\ r.status = "falha" => r.erro # None /\ r.dados = None
       /\ r.status = "pulado" => r.dados = None /\ r.erro = None

\* A Success without payload (executar returned None), then a Failure.
C19_Witness ==
    /\ Len(resultados) = 2
    /\ resultados[1].status = "sucesso"
    /\ resultados[1].dados = None
    /\ resultados[2].status = "falha"
    /\ resultados[2].erro # None

-----------------------------------------------------------------------------
(* C20: an exception raised by a hook, a plugin callback or a skip predicate
   is not caught by the runner: it leaves executar as it is and the call
   that raised is the last thing the run did: the remaining callbacks of
   that dispatch are not called, a step whose before-hook raised is never
   invoked, no later step is processed, no further event (flow-end
   included) is dispatched and no Failure result is made for it. *)
C20_ErroDeCallbackPropaga ==
    /\ \A e \in DOMAIN eventos :
          (eventos[e].ev = "deve_pular" /\ eventos[e].ret = "raise") =>
             e = Len(eventos) /\ saida.tipo = "excecao"
    /\ \A j \in DOMAIN resultados :
          resultados[j].erro = None \/ resultados[j].erro.de = "step"
    /\ saida.tipo = "excecao" =>
          LET u == eventos[Len(eventos)] IN
          /\ pc = "fim"
          /\ saida.erro = Erro("CallbackError", u.ev, u.passo, u.k)
          /\ u.ev \in {"ao_iniciar_flow", "deve_pular", "hook_antes",
                       "ao_iniciar_step", "ao_falhar_step", "hook_apos",
                       "ao_finalizar_step", "ao_finalizar_flow"}
          /\ \A e \in DOMAIN eventos : eventos[e].passo <= idx
          /\ u.passo >= 1 => idx = u.passo
          /\ u.ev = "ao_iniciar_flow" => resultados = <<>> /\ idx = 0
          /\ u.ev \in {"deve_pular", "hook_antes", "ao_iniciar_step"} =>
                /\ Chamadas(u.passo) = 0
                /\ Len(resultados) = u.passo - 1
          /\ u.ev = "ao_falhar_step" => Len(resultados) = u.passo - 1
          /\ u.ev \in {"hook_apos", "ao_finalizar_step"} =>
                /\ Len(resultados) = u.passo
                /\ resultados[u.passo].status \in {"sucesso", "falha"}
          /\ u.ev # "ao_finalizar_flow" => FlowEnds = {}

\* The first before-hook of the first of two steps raised: the second hook
\* and the step were never called.
C20_Witness ==
    /\ saida.tipo = "excecao"
    /\ saida.erro.de = "hook_antes"
    /\ saida.erro.n = 1
    /\ idx = 1
    /\ Len(steps) = 2
    /\ Chamadas(1) = 0
    /\ resultados = <<>>

-----------------------------------------------------------------------------
(* C21: for every step the skip predicate is evaluated exactly once per run,
   before anything else of that step, and never again between retries; for
   a step that is not skipped the calls come in this order: before-hooks,
   plugin step-start, every invocation of executar (ao_falhar_step after
   them on failure), after-hooks, plugin step-end, and then the payload is
   stored; all of it precedes the skip predicate of the next step, which
   is the first to see the stored payload. *)

\* The place of a call in the processing of one step.
Fase(e) ==
    IF e.ev = "deve_pular" THEN 0
    ELSE IF e.ev = "hook_antes" THEN 1
    ELSE IF e.ev = "ao_iniciar_step" THEN 2
    ELSE IF e.ev \in {"executar", "sleep"} THEN 3
    ELSE IF e.ev = "ao_falhar_step" THEN 4
    ELSE IF e.ev = "hook_apos" THEN 5
    ELSE 6

C21_OrdemDentroDoStep ==
    /\ \A e \in 1..(Len(eventos) - 1) :
          LET a == eventos[e]
              b == eventos[e + 1]
          IN IF b.ev = "ao_finalizar_flow"
             THEN TRUE
             ELSE IF a.passo = 0
                  THEN b.ev = "ao_iniciar_flow" \/ (b.ev = "deve_pular" /\ b.passo = 1)
                  ELSE IF b.ev = "deve_pular"
                       THEN /\ b.passo = a.passo + 1
                            /\ \/ a.ev = "deve_pular" /\ a.ret = "True"
                               \/ a.ev = "ao_finalizar_step" /\ a.k = NPlugins
                            /\ b.ctx = CtxEsperado(a.passo)
                       ELSE /\ b.passo = a.passo
                            /\ Fase(a) <= Fase(b)
                            /\ a.ev = "deve_pular" => a.ret = "False"
                            /\ (a.ev # "sleep" /\ b.ev # "sleep") => b.ctx = a.ctx
    /\ \A j \in 1..Len(steps) :
          Cardinality({e \in DOMAIN eventos :
                          eventos[e].passo = j /\ eventos[e].ev = "deve_pular"})
             = IF j < idx \/ (j = idx /\ pc # "pular") THEN 1 ELSE 0
    /\ \A j \in DOMAIN resultados :
          (resultados[j].status # "pulado" /\ j < idx) =>
             LET doStep == {e \in DOMAIN eventos : eventos[e].passo = j}
                 n(ev) == Cardinality({e \in doStep : eventos[e].ev = ev})
             IN /\ n("hook_antes") = NHooks
                /\ n("ao_iniciar_step") = NPlugins
                /\ n("executar") >= 1
                /\ n("sleep") = n("executar") - 1
                /\ n("ao_falhar_step") =
                      IF resultados[j].status = "falha" THEN NPlugins ELSE 0
                /\ n("hook_apos") = NHooks
                /\ n("ao_finalizar_step") = NPlugins

\* The first step was retried and failed, the flow went on, and the skip
\* predicate of the second step has been evaluated.
C21_Witness ==
    /\ Len(steps) = 2
    /\ Len(resultados) >= 1
    /\ resultados[1].status = "falha"
    /\ Chamadas(1) = 2
    /\ idx = 2
    /\ pc = "antes"

-----------------------------------------------------------------------------
(* C22: in executar_com_retry a wait (a sleep of calcular_espera(attempt))
   happens only after a failed invocation that deve_tentar_novamente
   accepts, and another invocation always follows it; there is no wait
   after the max_tentativas-th invocation or after a filtered error; the
   waits are at most max_tentativas - 1 and, when the wrapper has ended,
   one fewer than the invocations. *)
EsperasDe(j) ==
    {e \in DOMAIN eventos : eventos[e].passo = j /\ eventos[e].ev = "sleep"}

C22_EsperaSoAntesDeRetentar ==
    /\ \A e \in DOMAIN eventos :
          eventos[e].ev = "sleep" =>
             LET pol == PolicyDoStep(eventos[e].passo) IN
             /\ e > 1
             /\ Truthy(pol)
             /\ eventos[e - 1].ev = "executar"
             /\ eventos[e - 1].passo = eventos[e].passo
             /\ eventos[e - 1].n = eventos[e].n
             /\ eventos[e - 1].erro # None
             /\ eventos[e].n < pol.max_tentativas
             /\ IsInstance(eventos[e - 1].erro, pol.excecoes)
             /\ eventos[e].espera = pol.espera_segundos
             /\ IF e < Len(eventos)
                THEN /\ eventos[e + 1].ev = "executar"
                     /\ eventos[e + 1].passo = eventos[e].passo
                     /\ eventos[e + 1].n = eventos[e].n + 1
                ELSE pc = "invocar" /\ tentativa = eventos[e].n + 1
    /\ \A j \in 1..Len(steps) :
          LET pol == PolicyDoStep(j) IN
          /\ Truthy(pol) => Cardinality(EsperasDe(j)) <= pol.max_tentativas - 1
          /\ ~Truthy(pol) => EsperasDe(j) = {}
          /\ (j \in DOMAIN resultados /\ resultados[j].status # "pulado") =>
                Cardinality(EsperasDe(j)) = Chamadas(j) - 1
          /\ (j = idx /\ pc = "falhar") =>
                Cardinality(EsperasDe(j)) = Chamadas(j) - 1

\* Three attempts allowed and three failures: two waits, none after the
\* third invocation.
C22_Witness ==
    /\ Len(resultados) >= 1
    /\ resultados[1].status = "falha"
    /\ Chamadas(1) = 3
    /\ Cardinality(EsperasDe(1)) = 2

-----------------------------------------------------------------------------
(* C23: for a flow with finitely many steps, a finite max_tentativas in
   every policy, and steps, predicates and callbacks that each return or
   raise, every call of executar eventually ends: it returns the result
   list or raises; it never waits or retries for ever. *)
C23_ExecutarTermina ==
    <>(pc = "fim" /\ saida.tipo \in {"retorno", "FlowError", "excecao"})

\* A run that waited, retried and then returned.
C23_Witness ==
    /\ pc = "fim"
    /\ saida.tipo = "retorno"
    /\ Len(steps) = 2
    /\ Cardinality(EsperasDe(1)) = 1
    /\ Chamadas(1) = 2

-----------------------------------------------------------------------------
(* C24: a later call of executar on the same flow starts with a fresh
   context: given no contexto, or a new dict, no entry written during the
   earlier call is seen by any step, skip predicate or hook of the later
   call, and the later call returns a new result list with one entry per
   step it processed. *)
C24_ContextoNovoACadaExecucao ==
    Len(anteriores) = 1 =>
       /\ pc = "iniciar_flow" =>
             ctx = (IF contexto = None THEN EmptyCtx ELSE contexto)
       /\ \A e \in DOMAIN eventos :
             (eventos[e].passo >= 1 /\ eventos[e].ev # "sleep") =>
                /\ eventos[e].ctx = CtxEsperado(eventos[e].passo - 1)
                /\ eventos[e].passo = 1 =>
                      eventos[e].ctx = (IF contexto = None THEN EmptyCtx ELSE contexto)
       /\ Len(resultados) <= Len(steps)
       /\ \A j \in DOMAIN resultados : resultados[j].passo = j
       /\ saida.tipo = "retorno" =>
             /\ saida.valor = resultados
             /\ Len(saida.valor) = Len(steps)

\* The earlier call stored the payload of step A; the later call, given no
\* contexto, invoked A with an empty context and returned one result.
C24_Witness ==
    /\ Len(anteriores) = 1
    /\ "A" \in DOMAIN anteriores[1].ctx
    /\ Len(anteriores[1].resultados) = 1
    /\ contexto = None
    /\ saida.tipo = "retorno"
    /\ Len(saida.valor) = 1
    /\ Chamadas(1) >= 1
    /\ ExecN(1, 1).ctx = EmptyCtx

-----------------------------------------------------------------------------
(* C25: the effective policy of a step is its own override when one was
   given, otherwise the flow's retry_padrao, otherwise none.  With none,
   executar is invoked exactly once and an error it raises yields the
   Failure at once; with an override, its max_tentativas and its retryable
   set decide, not those of retry_padrao. *)
C25_PolicyEfetiva ==
    \A j \in 1..Len(steps) :
       LET ef == IF steps[j].retry # None THEN steps[j].retry ELSE retry_padrao
           execs == {e \in DOMAIN eventos :
                        eventos[e].passo = j /\ eventos[e].ev = "executar"}
       IN /\ ef = None =>
                /\ Cardinality(execs) <= 1
                /\ EsperasDe(j) = {}
                /\ (j \in DOMAIN resultados /\ resultados[j].status # "pulado") =>
                      /\ Cardinality(execs) = 1
                      /\ resultados[j].tentativas = 1
          /\ ef # None =>
                /\ Cardinality(execs) <= ef.max_tentativas
                /\ (j \in DOMAIN resultados /\ resultados[j].status = "falha") =>
                      resultados[j].tentativas = ef.max_tentativas
          /\ \A e \in execs :
                eventos[e].erro # None =>
                   LET retenta == /\ ef # None
                                  /\ eventos[e].n < ef.max_tentativas
                                  /\ IsInstance(eventos[e].erro, ef.excecoes)
                   IN IF e < Len(eventos)
                      THEN /\ eventos[e + 1].passo = j
                           /\ eventos[e + 1].ev =
                                 IF retenta THEN "sleep" ELSE "ao_falhar_step"
                           /\ ~retenta => eventos[e + 1].erro = eventos[e].erro
                      ELSE pc = IF retenta THEN "esperar" ELSE "falhar"

\* The default retries everything; the step's own policy allows three
\* attempts for TypeError only; a ValueError ends the step after one
\* invocation, with tentativas = 3.
C25_Witness ==
    /\ retry_padrao = FixedDelay(2, {"Exception"})
    /\ steps[1].retry = FixedDelay(3, {"TypeError"})
    /\ Len(resultados) = 1
    /\ resultados[1].status = "falha"
    /\ resultados[1].erro.tipo = "ValueError"
    /\ resultados[1].tentativas = 3
    /\ Chamadas(1) = 1

-----------------------------------------------------------------------------
(* C26: the payload of a step is stored in the context only after all its
   after-hooks and step-end callbacks have returned: these callbacks see
   the context without the entry of the current step, and if one of them
   raises for a step that succeeded, the payload is never stored (a dict
   supplied by the caller is left without it). *)

\* The context c holds the payload of result r under the name of step j.
TemOPayload(c, j, r) ==
    /\ r.dados # None
    /\ steps[j].nome \in DOMAIN c
    /\ c[steps[j].nome] = r.dados

C26_PayloadDepoisDosCallbacks ==
    /\ \A e \in DOMAIN eventos :
          eventos[e].ev \in {"hook_apos", "ao_finalizar_step"} =>
             /\ eventos[e].ctx = CtxEsperado(eventos[e].passo - 1)
             /\ ~TemOPayload(eventos[e].ctx, eventos[e].passo, eventos[e].res)
    /\ \A j \in DOMAIN resultados :
          (resultados[j].status = "sucesso" /\ resultados[j].dados # None) =>
             IF j < idx \/ (j = idx /\ pc = "finalizar_flow")
             THEN /\ TemOPayload(ctx, j, resultados[j])
                  /\ contexto # None =>
                        (TemOPayload(DoChamador, j, resultados[j])
                           <=> ctx_ref = "contexto")
             ELSE /\ ~TemOPayload(ctx, j, resultados[j])
                  /\ contexto # None => ~TemOPayload(DoChamador, j, resultados[j])
    /\ ( /\ saida.tipo = "excecao"
         /\ saida.erro.de \in {"hook_apos", "ao_finalizar_step"} ) =>
          /\ ctx = CtxEsperado(idx - 1)
          /\ ~TemOPayload(ctx, idx, resultados[idx])

\* The caller supplied a dict; step A succeeded with a payload and an
\* after-hook raised: the caller's dict has no entry for A.
C26_Witness ==
    /\ contexto # None
    /\ ctx_ref = "contexto"
    /\ saida.tipo = "excecao"
    /\ saida.erro.de = "hook_apos"
    /\ idx = 1
    /\ resultados[1].status = "sucesso"
    /\ resultados[1].dados # None
    /\ "A" \notin DOMAIN DoChamador

-----------------------------------------------------------------------------
(* C27: when two steps of a flow have the same nome and both succeed with
   a payload, the entry under that name after the run is the payload of the
   later step: the earlier payload is overwritten, so the context has at
   most one entry per step name, while resultados still has one result per
   step. *)

\* The steps finished so far that succeeded with a payload under nome.
ComPayload(nome) ==
    {j \in DOMAIN resultados :
        /\ j < idx
        /\ steps[j].nome = nome
        /\ resultados[j].status = "sucesso"
        /\ resultados[j].dados # None}

\* The largest number of a nonempty set of numbers.
Maior(S) == CHOOSE j \in S : \A m \in S : m <= j

C27_MesmoNomeSobrescreve ==
    pc # "ini" =>
    /\ \A nome \in {steps[j].nome : j \in DOMAIN steps} :
          IF ComPayload(nome) # {}
          THEN /\ nome \in DOMAIN ctx
               /\ ctx[nome] = resultados[Maior(ComPayload(nome))].dados
               /\ \A j \in ComPayload(nome) \ {Maior(ComPayload(nome))} :
                     ctx[nome] # resultados[j].dados
          ELSE ctx = ContextoInicial(contexto)
    /\ DOMAIN ctx \subseteq
          DOMAIN ContextoInicial(contexto) \cup {steps[j].nome : j \in DOMAIN steps}
    /\ (pc = "fim" /\ saida.tipo = "retorno") =>
          /\ saida.valor = resultados
          /\ \A j \in DOMAIN resultados : resultados[j].passo = j
          /\ (\A j \in DOMAIN resultados : resultados[j].status # "falha") =>
                Len(resultados) = Len(steps)

\* Both steps named A returned a payload: the flow returns two results and
\* one entry, the payload of the second step.
C27_Witness ==
    /\ pc = "fim"
    /\ saida.tipo = "retorno"
    /\ contexto = None
    /\ Len(steps) = 2
    /\ steps[1].nome = steps[2].nome
    /\ Len(saida.valor) = 2
    /\ \A j \in 1..2 : /\ saida.valor[j].status = "sucesso"
                       /\ saida.valor[j].dados # None
    /\ DOMAIN ctx = {"A"}
    /\ ctx["A"] = saida.valor[2].dados
    /\ ctx["A"] # saida.valor[1].dados

====
